---- MODULE Spec2Model ----
(***************************************************************************)
(* TrovaTask push-notification dispatch engine.                            *)
(*                                                                         *)
(* The module holds several specifications over one set of variables:      *)
(*   SpecLimiter  ConcurrencyLimiter.run driven by independent callers     *)
(*   SpecBucket   the token-bucket RateLimiter driven by concurrent callers *)
(*   SpecRetry    one invocation of fastRetry, in each of its versions     *)
(*   Spec         the v19 sendToDevice tasks of one fan-out, sharing the   *)
(*                ConcurrencyLimiter and the sliding-list RateLimiter;     *)
(*                time is kept as the order in which timestamps leave the  *)
(*                interval                                                 *)
(*   SpecRace     sendToDevice tasks of concurrent invocations, all for    *)
(*                the same registered device                               *)
(*   SpecAcquire  RateLimiter.acquire of either class (SpecAcquireFair:    *)
(*                with advancing time)                                     *)
(*   SpecHandler  one invocation of the v19 handleNotification             *)
(*                (SpecHandlerFair: fair device tasks; SpecHandlerTimerFair: *)
(*                fair handler and timer only)                             *)
(*   SpecEntry    src/src/main.js in front of the handler (SpecEntryFair)  *)
(*   SpecLimiterFair  SpecLimiter with callers and tasks that make progress *)
(*   SpecBucketSeq  the token bucket driven by one sequential caller        *)
(*   SpecWindow   the sliding-list RateLimiter on the real clock           *)
(*   SpecLookup   the v13.1 fallback user search of src/index.js           *)
(*                                                                         *)
(* Every specification fixes the variables of the other groups at their    *)
(* initial values.                                                         *)
(***************************************************************************)
EXTENDS Integers, Sequences, FiniteSets, TLC

VARIABLES
    \* ---- ConcurrencyLimiter (src/src/utils.js 189-211) ----
    running,      \* this.running / this.current: the slot counter
    queue,        \* this.queue: the resolve callbacks of blocked callers, oldest first
    lpc,          \* per caller: where its run() invocation stands
    lres,         \* per caller: how run() ended ("none" while it has not)
    callOrder,    \* history: callers in the order they called run
    startOrder,   \* history: callers in the order their task body was entered
    everWaited,   \* history: callers that found the limiter full when they called run
    \* ---- clock ----
    now,          \* Date.now(), in ticks (TicksPerSecond ticks make one second)
    \* ---- which RateLimiter the process constructed ----
    rlKind,       \* "bucket" (src/src/notification.js) or "window" (src/src/utils.js v19)
    \* ---- token-bucket RateLimiter (src/src/notification.js 37-58) ----
    tokens,       \* this.tokens, scaled by TicksPerSecond (TicksPerSecond = one token)
    lastRefill,   \* this.lastRefill, in ticks
    bpc,          \* per caller: where its acquire() invocation stands
    wakeAt,       \* per caller: the tick its setTimeout is due at (0: no timer)
    admitted,     \* history: number of acquire() calls that have returned
    \* ---- fastRetry (src/src/utils.js 68-86, 217-237; src/src/notification.js 87-96) ----
    frVersion,    \* which fastRetry runs
    frMaxRetries, \* its maxRetries argument
    frAttempt,    \* the loop variable (attempt / i)
    frPc,         \* where the invocation stands
    frOutcomes,   \* history: the outcome of every invocation of fn, in order
    frDelays,     \* history: the delay of every backoff sleep, in order (ms)
    frResult,     \* what fastRetry returned or threw
    \* ---- sendToDevice v19 (src/unnamed/part_002 609-718) ----
    devOf,        \* per task: the deviceId of the entry the task was started with
    hasRoute,     \* per device: deviceData.appwriteUserId is set
    spc,          \* per device: where its sendToDevice task stands
    sAttempt,     \* per device: the loop variable of the fastRetry in progress
    sWake,        \* per device asleep in acquire(): who pushed the timestamp it waits out
    sErr,         \* per device: the error the catch block of sendToDevice caught
    sOutcome,     \* per device: the value sendToDevice resolved to
    requests,     \* this.requests after its filter: the timestamps still inside the
                  \* interval, oldest first, each named by the device that pushed it
    registry,     \* Firestore users/<recipient>.devices: the device ids present
    deletes,      \* history: the (recipient, deviceId) pairs a delete was issued for
    slots,        \* history, per device: times it took a concurrency slot
    grants,       \* history, per device: rate-limiter admissions it received
    calls,        \* history, per device: provider calls started for it
    \* ---- handleNotification v19 (src/unnamed/part_002 730-972) ----
    hpc,          \* where the invocation stands
    hVersion,     \* which handleNotification runs: "v19" (part_002) or "v18.1" (notification.js)
    hTarget,      \* eventData.deviceId (0: not given)
    scheduled,    \* Object.keys(devicesMap) at the fan-out: the devices a task is made for
    timer,        \* the early-response timer: "none", "armed" or "fired"
    hResult,      \* what handleNotification returned, or the error it threw
    hRead,        \* history: how the registry read ended ("none" before it)
    hReturns,     \* history: how many times the invocation returned or threw
    bgLog,        \* the outcomes the background logger printed (<<>>: it has not run)
    \* ---- sliding-list RateLimiter on its own (src/src/utils.js 156-183) ----
    stamps,       \* this.requests: the timestamps kept, in ticks, oldest first
    wpc,          \* per caller: where its acquire() invocation stands
    wWake,        \* per caller: the tick its setTimeout is due at (0: no timer)
    grantLog,     \* history: the tick of every acquire() that returned, in order
    \* ---- v13.1 fallback user search (src/index.js 168-238) ----
    lkUsers,      \* what users.list / users.listTargets answer: the users in list order
    lkOffset,     \* offset
    lkFound,      \* foundUser (0: null), as the position of the user in the list
    lkNewest,     \* newestDate (0: null)
    lkBatches,    \* history: number of users.list requests issued
    lkPc,         \* "loop" while the search runs, "done" after it
    \* ---- entry point (src/src/main.js) ----
    mBody,        \* req.bodyRaw: whether it parses, and which required fields it holds
    mpc,          \* where the request stands: "idle", "awaiting" (the handler), "responded"
    mResp         \* the status codes of the responses sent with res.json, in order

limVars == <<running, queue, lpc, lres, callOrder, startOrder, everWaited>>

tbVars == <<tokens, lastRefill, bpc, wakeAt, admitted>>

frVars == <<frVersion, frMaxRetries, frAttempt, frPc, frOutcomes, frDelays, frResult>>

sendVars == <<devOf, hasRoute, spc, sAttempt, sWake, sErr, sOutcome, requests, registry,
              deletes, slots, grants, calls>>

hVars == <<hpc, hVersion, hTarget, scheduled, timer, hResult, hRead, hReturns, bgLog>>

mainVars == <<mBody, mpc, mResp>>

swVars == <<stamps, wpc, wWake, grantLog>>

lkVars == <<lkUsers, lkOffset, lkFound, lkNewest, lkBatches, lkPc>>

vars == <<limVars, now, rlKind, tbVars, frVars, sendVars, hVars, mainVars, swVars, lkVars>>

\* what the steps of each specification leave alone
offLimiter == <<now, rlKind, tbVars, frVars, sendVars, hVars, mainVars, swVars, lkVars>>

offBucket == <<limVars, rlKind, frVars, sendVars, hVars, mainVars, swVars, lkVars>>

offRetry == <<limVars, now, rlKind, tbVars, sendVars, hVars, mainVars, swVars, lkVars>>

offSend == <<lpc, lres, callOrder, startOrder, everWaited, now, rlKind, tbVars, frVars,
            hVars, mainVars, swVars, lkVars>>

offHandler == <<limVars, now, rlKind, tbVars, frVars, sendVars, mainVars, swVars, lkVars>>

offMain == <<limVars, now, rlKind, tbVars, frVars, sendVars, swVars, lkVars>>

\* ------------------------------------------------------------------ bounds

\* constructor argument of ConcurrencyLimiter (config.MAX_CONCURRENT_REQUESTS, scaled down)
maxConcurrent == 1

\* number of independent callers of ConcurrencyLimiter.run
NumCallers == 3

Callers == 1..NumCallers

\* clock resolution: ticks per second
TicksPerSecond == 4

\* the clock stops advancing here once no timer is pending
MaxTime == 4

\* constructor argument of the token-bucket RateLimiter (config.RATE_LIMIT_PER_SECOND,
\* scaled down)
maxPerSecond == 2

\* number of concurrent callers of RateLimiter.acquire
NumAcquirers == 3

\* total number of acquire() calls made
MaxAcquires == 5

Acquirers == 1..NumAcquirers

\* number of devices registered for the recipient
NumDevices == 2

Devices == 1..NumDevices

\* the recipient's Firebase uid
RecipientId == "r1"

\* largest maxRetries argument fastRetry is called with
MaxRetriesArg == 3

\* config.MAX_RETRIES, the default of utils.js fastRetry
MAX_RETRIES == 2

\* the default maxRetries of the fastRetry local to notification.js
LOCAL_MAX_RETRIES == 2

\* config.INITIAL_RETRY_DELAY (ms)
INITIAL_RETRY_DELAY == 50

\* the base of the linear backoff of the fastRetry local to notification.js (ms)
LOCAL_RETRY_DELAY == 100

\* ------------------------------------------------------------------ helpers

\* position of x in sequence s, 0 when absent
IndexOf(s, x) ==
    IF \E i \in 1..Len(s) : s[i] = x
    THEN CHOOSE i \in 1..Len(s) : s[i] = x
    ELSE 0

\* a / b rounded up: a timer never fires before its delay has passed
CeilDiv(a, b) == (a + b - 1) \div b

Min(a, b) == IF a <= b THEN a ELSE b

\* 2^n
RECURSIVE Pow2(_)
Pow2(n) == IF n = 0 THEN 1 ELSE 2 * Pow2(n - 1)

\* ------------------------------------------------------------ provider errors

\* what a provider call can end with: success, or an error with its `code` and whether
\* its `message` contains 'could not be found'
Ok == [kind |-> "ok", code |-> "none", notFoundMsg |-> FALSE]

Err(code, nf) == [kind |-> "err", code |-> code, notFoundMsg |-> nf]

ProviderErrors ==
    { Err("404", TRUE), Err("404", FALSE), Err("400", FALSE), Err("401", FALSE),
      Err("403", FALSE), Err("500", FALSE), Err("none", FALSE), Err("none", TRUE),
      Err("messaging/registration-token-not-registered", FALSE),
      Err("messaging/invalid-registration-token", FALSE) }

CallOutcomes == {Ok} \cup ProviderErrors

\* fastRetry has not ended / ended by falling out of its loop (returns undefined)
NoResult == [kind |-> "none", code |-> "none", notFoundMsg |-> FALSE]

Undefined == [kind |-> "undefined", code |-> "none", notFoundMsg |-> FALSE]

\* ------------------------------------------------------ ConcurrencyLimiter

\* the mutant of LimiterFull: an off-by-one loop condition
LimiterFullOffByOne(r) == r > maxConcurrent

\* `while (this.running >= this.maxConcurrent)`
LimiterFull(r) == r >= maxConcurrent

\* the mutant of SlotAfterTask: the decrement sits after `await fn()` instead of in
\* `finally`, so a throwing task skips it
SlotAfterTaskNoFinally(r, outcome) == IF outcome = "err" THEN r ELSE r - 1

\* `finally { this.running--; ... }`: the counter after a task left the body
SlotAfterTask(r, outcome) == r - 1

\* the mutant of WokenBy: the finally block wakes the newest waiter (queue.pop())
WokenByNewest(q) == IF Len(q) > 0 THEN {q[Len(q)]} ELSE {}

\* a mutant of WokenBy: the finally block gives the slot back and wakes nobody
WokenByNobody(q) == {}

\* `const resolve = this.queue.shift(); if (resolve) resolve();`: who is woken
WokenBy(q) == IF Len(q) > 0 THEN {Head(q)} ELSE {}

\* the queue after the finally block took the woken callback out
QueueAfterWake(q) == IF Len(q) > 0 THEN SelectSeq(q, LAMBDA x : x \notin WokenBy(q)) ELSE q

\* run(fn), from the call to its first suspension: the loop test, then either the
\* push of the resolve callback (the caller blocks) or running++ and the task body
LimCall(c) ==
    /\ lpc[c] = "idle"
    /\ callOrder' = Append(callOrder, c)
    /\ IF LimiterFull(running)
       THEN /\ queue' = Append(queue, c)
            /\ lpc' = [lpc EXCEPT ![c] = "waiting"]
            /\ everWaited' = everWaited \cup {c}
            /\ UNCHANGED <<running, startOrder>>
       ELSE /\ running' = running + 1
            /\ lpc' = [lpc EXCEPT ![c] = "inTask"]
            /\ startOrder' = Append(startOrder, c)
            /\ UNCHANGED <<queue, everWaited>>
    /\ UNCHANGED lres
    /\ UNCHANGED offLimiter

\* the continuation of `await new Promise(resolve => this.queue.push(resolve))` of a
\* woken caller: the loop test again, then the push or running++
LimResume(c) ==
    /\ lpc[c] = "woken"
    /\ IF LimiterFull(running)
       THEN /\ queue' = Append(queue, c)
            /\ lpc' = [lpc EXCEPT ![c] = "waiting"]
            /\ UNCHANGED <<running, startOrder>>
       ELSE /\ running' = running + 1
            /\ lpc' = [lpc EXCEPT ![c] = "inTask"]
            /\ startOrder' = Append(startOrder, c)
            /\ UNCHANGED queue
    /\ UNCHANGED <<lres, callOrder, everWaited>>
    /\ UNCHANGED offLimiter

\* the continuation of `await fn()` with the task's outcome, and the finally block:
\* running--, shift, resolve; run then returns the result or rethrows
LimTaskEnd(c, outcome) ==
    /\ lpc[c] = "inTask"
    /\ running' = SlotAfterTask(running, outcome)
    /\ queue' = QueueAfterWake(queue)
    /\ lpc' = [x \in Callers |->
                 IF x = c THEN "done"
                 ELSE IF x \in WokenBy(queue) THEN "woken"
                 ELSE lpc[x]]
    /\ lres' = [lres EXCEPT ![c] = outcome]
    /\ UNCHANGED <<callOrder, startOrder, everWaited>>
    /\ UNCHANGED offLimiter

LimTaskReturn(c) == LimTaskEnd(c, "ok")

LimTaskThrow(c) == LimTaskEnd(c, "err")

\* what sendToDevice resolves to: `{deviceId, success, error, autoCleanup}`
Outcome(d, success, error, cleaned) ==
    [deviceId |-> d, success |-> success, error |-> error, autoCleanup |-> cleaned]

NoOutcome == [deviceId |-> 0, success |-> FALSE, error |-> "pending", autoCleanup |-> FALSE]

\* handleNotification has not returned
NoReturn == [status |-> "pending"]

\* no request received
ParkedMain ==
    /\ mBody = [parses |-> TRUE, recipientId |-> TRUE, chatId |-> TRUE]
    /\ mpc = "idle"
    /\ mResp = <<>>

\* handleNotification not called
ParkedHandler ==
    /\ ParkedMain
    /\ hVersion = "v19"
    /\ hpc = "idle"
    /\ hTarget = 0
    /\ scheduled = {}
    /\ timer = "none"
    /\ hResult = NoReturn
    /\ hRead = "none"
    /\ hReturns = 0
    /\ bgLog = <<>>

\* no sendToDevice task started, the limiters as constructed
ParkedSend ==
    /\ ParkedHandler
    /\ devOf = [d \in Devices |-> d]
    /\ hasRoute = [d \in Devices |-> TRUE]
    /\ spc = [d \in Devices |-> "start"]
    /\ sAttempt = [d \in Devices |-> 0]
    /\ sWake = [d \in Devices |-> 0]
    /\ sErr = [d \in Devices |-> NoResult]
    /\ sOutcome = [d \in Devices |-> NoOutcome]
    /\ requests = <<>>
    /\ registry = Devices
    /\ deletes = {}
    /\ slots = [d \in Devices |-> 0]
    /\ grants = [d \in Devices |-> 0]
    /\ calls = [d \in Devices |-> 0]

\* no fastRetry in progress
ParkedRetry ==
    /\ frVersion = "utils19"
    /\ frMaxRetries = MAX_RETRIES
    /\ frAttempt = 0
    /\ frPc = "loop"
    /\ frOutcomes = <<>>
    /\ frDelays = <<>>
    /\ frResult = NoResult

\* the token-bucket limiter as constructed, no acquire() in progress
ParkedBucket ==
    /\ tokens = maxPerSecond * TicksPerSecond
    /\ lastRefill = 0
    /\ bpc = [c \in Acquirers |-> "idle"]
    /\ wakeAt = [c \in Acquirers |-> 0]
    /\ admitted = 0

\* the sliding-list limiter as constructed, no acquire() in progress
ParkedWindow ==
    /\ stamps = <<>>
    /\ wpc = [c \in Acquirers |-> "idle"]
    /\ wWake = [c \in Acquirers |-> 0]
    /\ grantLog = <<>>

\* no fallback search started
ParkedLookup ==
    /\ lkUsers = <<>>
    /\ lkOffset = 0
    /\ lkFound = 0
    /\ lkNewest = 0
    /\ lkBatches = 0
    /\ lkPc = "loop"

\* the concurrency limiter as constructed, no run() in progress
ParkedLimiter ==
    /\ running = 0
    /\ queue = <<>>
    /\ lpc = [c \in Callers |-> "idle"]
    /\ lres = [c \in Callers |-> "none"]
    /\ callOrder = <<>>
    /\ startOrder = <<>>
    /\ everWaited = {}

InitLimiter ==
    /\ rlKind = "window"
    /\ running = 0
    /\ queue = <<>>
    /\ lpc = [c \in Callers |-> "idle"]
    /\ lres = [c \in Callers |-> "none"]
    /\ callOrder = <<>>
    /\ startOrder = <<>>
    /\ everWaited = {}
    /\ now = 0
    /\ ParkedBucket
    /\ ParkedWindow
    /\ ParkedLookup
    /\ ParkedSend
    /\ ParkedRetry

NextLimiter ==
    \/ \E c \in Callers : LimCall(c)
    \/ \E c \in Callers : LimResume(c)
    \/ \E c \in Callers : LimTaskReturn(c)
    \/ \E c \in Callers : LimTaskThrow(c)

SpecLimiter == InitLimiter /\ [][NextLimiter]_vars

\* the tasks terminate and the continuation of a woken caller runs
LimProgress ==
    \/ \E c \in Callers : LimResume(c)
    \/ \E c \in Callers : LimTaskReturn(c)
    \/ \E c \in Callers : LimTaskThrow(c)

SpecLimiterFair == SpecLimiter /\ WF_vars(LimProgress)

\* ------------------------------------------------- token-bucket RateLimiter

\* the mutant of Refilled: no cap at maxPerSecond
RefilledNoCap(tk, last, t) == tk + (t - last) * maxPerSecond

\* `this.tokens = Math.min(this.maxPerSecond, this.tokens + timePassed * this.maxPerSecond)`
\* with timePassed = (now - lastRefill) / 1000, in scaled tokens
Refilled(tk, last, t) == Min(maxPerSecond * TicksPerSecond, tk + (t - last) * maxPerSecond)

\* `((1 - this.tokens) / this.maxPerSecond) * 1000`, in ticks
WaitTime(tk) == CeilDiv(TicksPerSecond - tk, maxPerSecond)

\* acquire(), from the call to its return or its suspension in setTimeout
TbAcquire(c) ==
    /\ bpc[c] = "idle"
    /\ admitted + Cardinality({x \in Acquirers : bpc[x] = "sleeping"}) < MaxAcquires
    /\ lastRefill' = now
    /\ IF Refilled(tokens, lastRefill, now) < TicksPerSecond
       THEN /\ tokens' = Refilled(tokens, lastRefill, now)
            /\ wakeAt' = [wakeAt EXCEPT ![c] = now + WaitTime(Refilled(tokens, lastRefill, now))]
            /\ bpc' = [bpc EXCEPT ![c] = "sleeping"]
            /\ UNCHANGED admitted
       ELSE /\ tokens' = Refilled(tokens, lastRefill, now) - TicksPerSecond
            /\ admitted' = admitted + 1
            /\ UNCHANGED <<bpc, wakeAt>>
    /\ UNCHANGED now
    /\ UNCHANGED offBucket

\* the timer of a sleeping caller fires: `this.tokens = 0`, and acquire returns
TbWake(c) ==
    /\ bpc[c] = "sleeping"
    /\ now >= wakeAt[c]
    /\ tokens' = 0
    /\ bpc' = [bpc EXCEPT ![c] = "idle"]
    /\ wakeAt' = [wakeAt EXCEPT ![c] = 0]
    /\ admitted' = admitted + 1
    /\ UNCHANGED <<now, lastRefill>>
    /\ UNCHANGED offBucket

\* the clock advances by one tick
TbTick ==
    /\ \/ now < MaxTime
       \/ \E c \in Acquirers : bpc[c] = "sleeping" /\ wakeAt[c] > now
    /\ now' = now + 1
    /\ UNCHANGED tbVars
    /\ UNCHANGED offBucket

InitBucket ==
    /\ rlKind = "bucket"
    /\ now = 0
    /\ ParkedBucket
    /\ ParkedWindow
    /\ ParkedLookup
    /\ ParkedLimiter
    /\ ParkedSend
    /\ ParkedRetry

NextBucket ==
    \/ \E c \in Acquirers : TbAcquire(c)
    \/ \E c \in Acquirers : TbWake(c)
    \/ TbTick

SpecBucket == InitBucket /\ [][NextBucket]_vars

\* the one caller of the sequential use: it calls acquire() again only after the
\* previous call returned
SeqCaller == 1

NextBucketSeq ==
    \/ TbAcquire(SeqCaller)
    \/ TbWake(SeqCaller)
    \/ TbTick

SpecBucketSeq == InitBucket /\ [][NextBucketSeq]_vars

\* ---------------------------------------------------------------- fastRetry

RetryVersions == {"utils18", "utils19", "local"}

\* the mutant of IsPermanent: 403 left out of the v19 list
IsPermanentNo403(v, e) ==
    CASE v = "utils18" -> e.code \in {"404", "400"}
      [] v = "utils19" -> e.code \in {"404", "400", "401"}
      [] OTHER -> FALSE

\* the test that rethrows without retrying: utils.js 74 (v18.0), utils.js 224 (v19);
\* the fastRetry of notification.js has none
IsPermanent(v, e) ==
    CASE v = "utils18" -> e.code \in {"404", "400"}
      [] v = "utils19" -> e.code \in {"404", "400", "401", "403"}
      [] OTHER -> FALSE

\* the mutant of LoopContinues: utils.js looping `attempt < maxRetries`
LoopContinuesShort(v, a, m) == a < m

\* the loop condition: `attempt <= maxRetries` (utils.js), `i < maxRetries` (notification.js)
LoopContinues(v, a, m) == IF v = "local" THEN a < m ELSE a <= m

\* the mutant of IsLastAttempt: utils.js giving up one attempt early
IsLastAttemptEarly(v, a, m) == a >= m - 1

\* the test that rethrows because no attempt is left: `!(attempt < maxRetries)`
\* (utils.js), `i === maxRetries - 1` (notification.js)
IsLastAttempt(v, a, m) == IF v = "local" THEN a = m - 1 ELSE ~(a < m)

\* the backoff delay in ms: `INITIAL_RETRY_DELAY * Math.pow(2, attempt)` (utils.js),
\* `100 * (i + 1)` (notification.js)
\* a mutant of BackoffDelay: the wait grows linearly
BackoffDelayLinear(v, a) == INITIAL_RETRY_DELAY * (a + 1)

BackoffDelay(v, a) ==
    IF v = "local" THEN LOCAL_RETRY_DELAY * (a + 1) ELSE INITIAL_RETRY_DELAY * Pow2(a)

\* one pass of the loop body: fn is invoked and ends with outcome o
FrInvoke(o) ==
    /\ frPc = "loop"
    /\ LoopContinues(frVersion, frAttempt, frMaxRetries)
    /\ frOutcomes' = Append(frOutcomes, o)
    /\ IF o.kind = "ok"
       THEN /\ frPc' = "returned"
            /\ frResult' = o
            /\ UNCHANGED frDelays
       ELSE IF IsPermanent(frVersion, o) \/ IsLastAttempt(frVersion, frAttempt, frMaxRetries)
       THEN /\ frPc' = "thrown"
            /\ frResult' = o
            /\ UNCHANGED frDelays
       ELSE /\ frPc' = "backoff"
            /\ frDelays' = Append(frDelays, BackoffDelay(frVersion, frAttempt))
            /\ UNCHANGED frResult
    /\ UNCHANGED <<frVersion, frMaxRetries, frAttempt>>
    /\ UNCHANGED offRetry

\* the backoff timer fired: the loop's increment
FrBackoffDone ==
    /\ frPc = "backoff"
    /\ frAttempt' = frAttempt + 1
    /\ frPc' = "loop"
    /\ UNCHANGED <<frVersion, frMaxRetries, frOutcomes, frDelays, frResult>>
    /\ UNCHANGED offRetry

\* the loop condition fails: the function falls off its end and returns undefined
FrLoopExit ==
    /\ frPc = "loop"
    /\ ~LoopContinues(frVersion, frAttempt, frMaxRetries)
    /\ frPc' = "returned"
    /\ frResult' = Undefined
    /\ UNCHANGED <<frVersion, frMaxRetries, frAttempt, frOutcomes, frDelays>>
    /\ UNCHANGED offRetry

InitRetry ==
    /\ rlKind = "window"
    /\ frVersion \in RetryVersions
    /\ frMaxRetries \in 0..MaxRetriesArg
    /\ frAttempt = 0
    /\ frPc = "loop"
    /\ frOutcomes = <<>>
    /\ frDelays = <<>>
    /\ frResult = NoResult
    /\ now = 0
    /\ ParkedLimiter
    /\ ParkedSend
    /\ ParkedBucket
    /\ ParkedWindow
    /\ ParkedLookup

NextRetry ==
    \/ \E o \in CallOutcomes : FrInvoke(o)
    \/ FrBackoffDone
    \/ FrLoopExit

SpecRetry == InitRetry /\ [][NextRetry]_vars

\* ------------------------------------------------------- sendToDevice (v19)

\* `new RateLimiter(config.RATE_LIMIT_PER_SECOND, 1000)`: the requests the sliding
\* requests admits per interval
maxRequests == 1

\* the fastRetry the v19 handler imports from utils.js, called with its default
\* maxRetries
SendRetry == "utils19"

\* the outcomes of a provider call the handler tells apart, one of each class
SendOutcomes ==
    { Ok, Err("404", TRUE), Err("403", FALSE), Err("none", FALSE), Err("none", TRUE),
      Err("messaging/registration-token-not-registered", FALSE) }

\* the mutant of MissingRoute: the appwriteUserId test is gone
MissingRouteNever(d) == FALSE

\* `if (!appwriteUserId)`
MissingRoute(d) == ~hasRoute[d]

\* the mutant of FailedOutcome: the generic failure outcome carries the cleanup flag
FailedOutcomeFlagged(d) == Outcome(devOf[d], FALSE, "err.message", TRUE)

\* the last return of the catch block: `{deviceId, success: false, error: err.message}`
FailedOutcome(d) == Outcome(devOf[d], FALSE, "err.message", FALSE)

\* the return after the delete succeeded
CleanedOutcome(d) == Outcome(devOf[d], FALSE, "Device removed (invalid token)", TRUE)

\* a mutant of RegistryAfterDelete: deleting a field that is absent puts it back
RegistryAfterDeleteToggle(reg, x) == IF x \in reg THEN reg \ {x} ELSE reg \cup {x}

\* `update({['devices.' + deviceId]: FieldValue.delete()})`: the field is removed, and
\* removing a field that is absent changes nothing
RegistryAfterDelete(reg, x) == reg \ {x}

\* the mutant of AfterDeleteFailure: the delete is not wrapped in its own try/catch,
\* so its error leaves sendToDevice
AfterDeleteFailureUncaught == "rejected"

\* `catch (removeErr)` only logs: control falls through to the last return
AfterDeleteFailure == "done"

\* a mutant of DeviceGone: every error fastRetry does not retry counts as device-gone
DeviceGoneAnyPermanent(e) ==
    \/ e.code \in {"404", "400", "401", "403"}
    \/ e.code = "messaging/registration-token-not-registered"
    \/ e.code = "messaging/invalid-registration-token"
    \/ e.notFoundMsg

\* the mutant of DeviceGone: the message of the error is not looked at
DeviceGoneByCodeOnly(e) ==
    \/ e.code = "404"
    \/ e.code = "messaging/registration-token-not-registered"
    \/ e.code = "messaging/invalid-registration-token"

\* isDeviceNotFound
DeviceGone(e) ==
    \/ e.code = "404"
    \/ e.code = "messaging/registration-token-not-registered"
    \/ e.code = "messaging/invalid-registration-token"
    \/ e.notFoundMsg

\* fn() of fastRetry: messaging.createPush for device d starts, as attempt a
Invoke(d, a) ==
    /\ spc' = [spc EXCEPT ![d] = "calling"]
    /\ sAttempt' = [sAttempt EXCEPT ![d] = a]
    /\ calls' = [calls EXCEPT ![d] = @ + 1]

\* a mutant of HasRoom: no timestamp is ever accepted
HasRoomNever(reqs) == FALSE

\* `this.requests.length < this.maxRequests`
HasRoom(reqs) == Len(reqs) < maxRequests

\* `this.requests[0]`: who pushed the oldest timestamp (0: the list is empty, the wait
\* computed from `undefined` is NaN and the timer fires at once)
OldestRequest(reqs) == IF reqs = <<>> THEN 0 ELSE reqs[1]

\* the task body handed to run, up to its first suspension: rateLimiter.acquire()
\* either pushes its timestamp and returns, and fastRetry makes its first attempt at
\* that instant, or sleeps until the oldest timestamp leaves the window
EnterBody(d) ==
    IF HasRoom(requests)
    THEN /\ requests' = Append(requests, d)
         /\ grants' = [grants EXCEPT ![d] = @ + 1]
         /\ Invoke(d, 0)
         /\ UNCHANGED sWake
    ELSE /\ spc' = [spc EXCEPT ![d] = "rlSleep"]
         /\ sWake' = [sWake EXCEPT ![d] = OldestRequest(requests)]
         /\ UNCHANGED <<requests, sAttempt, grants, calls>>

\* concurrencyLimiter.run(...) from the loop test on: the caller blocks, or takes a
\* slot and enters the task body
RunStep(d) ==
    IF LimiterFull(running)
    THEN /\ queue' = Append(queue, d)
         /\ spc' = [spc EXCEPT ![d] = "waiting"]
         /\ UNCHANGED <<running, slots, requests, sWake, sAttempt, grants, calls>>
    ELSE /\ running' = running + 1
         /\ slots' = [slots EXCEPT ![d] = @ + 1]
         /\ UNCHANGED queue
         /\ EnterBody(d)

\* sendToDevice is called for device d: the route test, then run(...)
SendStart(d) ==
    /\ spc[d] = "start"
    /\ IF MissingRoute(d)
       THEN /\ spc' = [spc EXCEPT ![d] = "done"]
            /\ sOutcome' = [sOutcome EXCEPT ![d] =
                              Outcome(devOf[d], FALSE, "No Appwrite User ID", FALSE)]
            /\ UNCHANGED <<running, queue, slots, requests, sWake, sAttempt, grants, calls>>
       ELSE /\ RunStep(d)
            /\ UNCHANGED sOutcome
    /\ UNCHANGED <<devOf, hasRoute, sErr, registry, deletes>>
    /\ UNCHANGED offSend

\* a caller woken by a finished task re-tests the loop of run
SlotResume(d) ==
    /\ spc[d] = "woken"
    /\ RunStep(d)
    /\ UNCHANGED <<devOf, hasRoute, sErr, sOutcome, registry, deletes>>
    /\ UNCHANGED offSend

\* the timer of acquire() fired, so the timestamp that was the oldest has left the
\* window: `return this.acquire()`
RateWake(d) ==
    /\ spc[d] = "rlSleep"
    /\ \A i \in 1..Len(requests) : requests[i] # sWake[d]
    /\ EnterBody(d)
    /\ UNCHANGED <<running, queue, slots>>
    /\ UNCHANGED <<devOf, hasRoute, sErr, sOutcome, registry, deletes>>
    /\ UNCHANGED offSend

\* a mutant of SlotReleased: the slot goes back when the first attempt settles, as if
\* fastRetry were not awaited inside the task body
SlotReleasedAtOnce(ended) == TRUE

\* the `finally` of run executes when the task body settles, which is when the awaited
\* fastRetry has returned or thrown
SlotReleased(ended) == ended

\* the provider call of device d settles with outcome o. Success: fastRetry returns,
\* run releases the slot, sendToDevice returns the outcome. Failure: fastRetry sleeps
\* before the next attempt, or rethrows; then run releases the slot and the catch
\* block of sendToDevice issues the cleanup delete or returns the failed outcome.
CallEnd(d, o) ==
    /\ spc[d] = "calling"
    /\ LET ended == \/ o.kind = "ok"
                    \/ IsPermanent(SendRetry, o)
                    \/ IsLastAttempt(SendRetry, sAttempt[d], MAX_RETRIES)
           how == IF o.kind = "ok" THEN "ok" ELSE "err"
           next == IF ~ended THEN "backoff"
                   ELSE IF o.kind = "ok" THEN "done"
                   ELSE IF DeviceGone(o) THEN "deleting"
                   ELSE "done"
       IN
       /\ running' = IF SlotReleased(ended) THEN SlotAfterTask(running, how) ELSE running
       /\ queue' = IF SlotReleased(ended) THEN QueueAfterWake(queue) ELSE queue
       /\ spc' = [x \in Devices |->
                    IF x = d THEN next
                    ELSE IF SlotReleased(ended) /\ x \in WokenBy(queue) THEN "woken"
                    ELSE spc[x]]
       /\ sErr' = [sErr EXCEPT ![d] = IF ended /\ o.kind = "err" THEN o ELSE NoResult]
       /\ deletes' = IF next = "deleting" THEN deletes \cup {<<RecipientId, devOf[d]>>}
                   ELSE deletes
       /\ sOutcome' = [sOutcome EXCEPT ![d] =
                          IF next # "done" THEN @
                          ELSE IF o.kind = "ok" THEN Outcome(devOf[d], TRUE, "none", FALSE)
                          ELSE FailedOutcome(d)]
    /\ UNCHANGED <<devOf, hasRoute, sAttempt, sWake, requests, registry, slots, grants, calls>>
    /\ UNCHANGED offSend

\* the backoff timer of fastRetry fired: attempt++ and the next invocation of fn
BackoffDone(d) ==
    /\ spc[d] = "backoff"
    /\ LoopContinues(SendRetry, sAttempt[d] + 1, MAX_RETRIES)
    /\ Invoke(d, sAttempt[d] + 1)
    /\ UNCHANGED <<devOf, hasRoute, sWake, sErr, sOutcome, requests, running, queue, registry, deletes,
                   slots, grants>>
    /\ UNCHANGED offSend

\* the Firestore update issued by the catch block settles; sendToDevice returns
DeleteEnd(d, ok) ==
    /\ spc[d] = "deleting"
    /\ registry' = IF ok THEN RegistryAfterDelete(registry, devOf[d]) ELSE registry
    /\ spc' = [spc EXCEPT ![d] = IF ok THEN "done" ELSE AfterDeleteFailure]
    /\ sOutcome' = [sOutcome EXCEPT ![d] = IF ok THEN CleanedOutcome(d) ELSE FailedOutcome(d)]
    /\ UNCHANGED <<devOf, hasRoute, sAttempt, sWake, sErr, requests, running, queue, deletes,
                   slots, grants, calls>>
    /\ UNCHANGED offSend

\* time passes until the oldest timestamp is `interval` old: the filter drops it
\* (this.requests is read by acquire() only, so the passing of time is followed only
\* while a task has its acquire() ahead of it or is asleep in it)
WindowSlide ==
    /\ requests # <<>>
    /\ \E d \in Devices : hasRoute[d] /\ spc[d] \in {"start", "waiting", "woken", "rlSleep"}
    /\ requests' = Tail(requests)
    /\ UNCHANGED <<running, queue, devOf, hasRoute, spc, sAttempt, sWake, sErr, sOutcome,
                   registry, deletes, slots, grants, calls>>
    /\ UNCHANGED offSend

InitSend ==
    /\ rlKind = "window"
    /\ devOf = [d \in Devices |-> d]
    /\ hasRoute \in [Devices -> BOOLEAN]
    /\ spc = [d \in Devices |-> "start"]
    /\ sAttempt = [d \in Devices |-> 0]
    /\ sWake = [d \in Devices |-> 0]
    /\ sErr = [d \in Devices |-> NoResult]
    /\ sOutcome = [d \in Devices |-> NoOutcome]
    /\ requests = <<>>
    /\ registry = Devices
    /\ deletes = {}
    /\ slots = [d \in Devices |-> 0]
    /\ grants = [d \in Devices |-> 0]
    /\ calls = [d \in Devices |-> 0]
    /\ now = 0
    /\ ParkedLimiter
    /\ ParkedBucket
    /\ ParkedWindow
    /\ ParkedLookup
    /\ ParkedRetry
    /\ ParkedHandler

NextSend ==
    \/ \E d \in Devices : SendStart(d)
    \/ \E d \in Devices : SlotResume(d)
    \/ \E d \in Devices : RateWake(d)
    \/ \E d \in Devices, o \in SendOutcomes : CallEnd(d, o)
    \/ \E d \in Devices : BackoffDone(d)
    \/ \E d \in Devices, ok \in BOOLEAN : DeleteEnd(d, ok)
    \/ WindowSlide

Spec == InitSend /\ [][NextSend]_vars

\* the device that concurrent invocations race on
RacedDevice == 1

\* concurrent invocations for one recipient, each with a sendToDevice task for the
\* same registered device: the tasks share the limiters of the process and the
\* recipient's document
InitRace ==
    /\ rlKind = "window"
    /\ devOf = [d \in Devices |-> RacedDevice]
    /\ hasRoute = [d \in Devices |-> TRUE]
    /\ registry = Devices
    /\ spc = [d \in Devices |-> "start"]
    /\ sAttempt = [d \in Devices |-> 0]
    /\ sWake = [d \in Devices |-> 0]
    /\ sErr = [d \in Devices |-> NoResult]
    /\ sOutcome = [d \in Devices |-> NoOutcome]
    /\ requests = <<>>
    /\ deletes = {}
    /\ slots = [d \in Devices |-> 0]
    /\ grants = [d \in Devices |-> 0]
    /\ calls = [d \in Devices |-> 0]
    /\ now = 0
    /\ ParkedLimiter
    /\ ParkedBucket
    /\ ParkedWindow
    /\ ParkedLookup
    /\ ParkedRetry
    /\ ParkedHandler

SpecRace == InitRace /\ [][NextSend]_vars

\* ------------------------------------------------------------------ sliding list
\* RateLimiter / ProRateLimiter of src/src/utils.js with its clock, driven by
\* concurrent callers

\* the constructor's default `interval = 1000`, in ticks
Interval == TicksPerSecond

offWindow == <<limVars, rlKind, tbVars, frVars, sendVars, hVars, mainVars, lkVars>>

\* `this.requests.filter(time => now - time < this.interval)`
Live(ts, t) == SelectSeq(ts, LAMBDA x : t - x < Interval)

\* `this.requests.push(now); return`
SwGrant(c) ==
    /\ stamps' = Append(Live(stamps, now), now)
    /\ grantLog' = Append(grantLog, now)
    /\ wpc' = [wpc EXCEPT ![c] = "idle"]
    /\ wWake' = [wWake EXCEPT ![c] = 0]

\* acquire() from its first line to its return or its suspension in setTimeout
SwCheck(c) ==
    IF HasRoom(Live(stamps, now))
    THEN SwGrant(c)
    ELSE /\ stamps' = Live(stamps, now)
         /\ wpc' = [wpc EXCEPT ![c] = "sleeping"]
         /\ wWake' = [wWake EXCEPT ![c] =
                         IF Live(stamps, now) = <<>> THEN now
                         ELSE now + Interval - (now - Live(stamps, now)[1])]
         /\ UNCHANGED grantLog

\* a mutant of AfterSleep: the caller that slept takes its place without testing again
AfterSleepGranted(c) == SwGrant(c)

\* `return this.acquire()`
AfterSleep(c) == SwCheck(c)

SwAcquire(c) ==
    /\ wpc[c] = "idle"
    /\ Len(grantLog) + Cardinality({x \in Acquirers : wpc[x] = "sleeping"}) < MaxAcquires
    /\ SwCheck(c)
    /\ UNCHANGED now
    /\ UNCHANGED offWindow

\* the timer of a sleeping caller fires
SwWake(c) ==
    /\ wpc[c] = "sleeping"
    /\ now >= wWake[c]
    /\ AfterSleep(c)
    /\ UNCHANGED now
    /\ UNCHANGED offWindow

\* the clock advances by one tick
SwTick ==
    /\ \/ now < MaxTime
       \/ \E c \in Acquirers : wpc[c] = "sleeping" /\ wWake[c] > now
    /\ now' = now + 1
    /\ UNCHANGED swVars
    /\ UNCHANGED offWindow

InitWindow ==
    /\ rlKind = "window"
    /\ now = 0
    /\ ParkedWindow
    /\ ParkedLookup
    /\ tokens = maxPerSecond * TicksPerSecond
    /\ lastRefill = 0
    /\ bpc = [c \in Acquirers |-> "idle"]
    /\ wakeAt = [c \in Acquirers |-> 0]
    /\ admitted = 0
    /\ ParkedLimiter
    /\ ParkedSend
    /\ ParkedRetry

NextWindow ==
    \/ \E c \in Acquirers : SwAcquire(c)
    \/ \E c \in Acquirers : SwWake(c)
    \/ SwTick

SpecWindow == InitWindow /\ [][NextWindow]_vars

\* RateLimiter.acquire of either class, driven by finitely many calls: the token
\* bucket by independent callers, the sliding list by the sendToDevice tasks
InitAcquire == InitBucket \/ InitSend

NextAcquire ==
    \/ rlKind = "bucket" /\ NextBucket
    \/ rlKind = "window" /\ NextSend

\* the clock advances and a timer that is due fires
TimePasses ==
    \/ rlKind = "bucket" /\ (TbTick \/ \E c \in Acquirers : TbWake(c))
    \/ rlKind = "window" /\ (WindowSlide \/ \E d \in Devices : RateWake(d))

SpecAcquire == InitAcquire /\ [][NextAcquire]_vars

SpecAcquireFair == SpecAcquire /\ WF_vars(TimePasses)

\* -------------------------------------------------- handleNotification (v19)

\* Object.entries(devicesMap) in key order, as a sequence
RECURSIVE Entries(_)
Entries(S) ==
    IF S = {} THEN <<>>
    ELSE LET d == CHOOSE x \in S : \A y \in S : x <= y
         IN <<d>> \o Entries(S \ {d})

\* `if (targetDeviceId && devicesMap[targetDeviceId])`: the map is narrowed to the
\* target when the target is in it, and left whole otherwise
DevicesMap(devs, target) ==
    IF target # 0 /\ target \in devs THEN {target} ELSE devs

\* the mutant of ResultOf: every element is read at the first index
ResultOfFirst(d) == sOutcome[CHOOSE x \in scheduled : \A y \in scheduled : x <= y]

\* one element of the array Promise.allSettled resolves to, as line 917 maps it
ResultOf(d) ==
    IF spc[d] = "rejected"
    THEN [deviceId |-> 0, success |-> FALSE, error |-> "rejected", autoCleanup |-> FALSE]
    ELSE sOutcome[d]

\* Promise.allSettled(notificationPromises) has resolved
AllSettled == \A d \in scheduled : spc[d] \in {"done", "rejected"}

\* the results of the scheduled tasks, in the order of deviceEntries
Results == [i \in 1..Len(Entries(scheduled)) |-> ResultOf(Entries(scheduled)[i])]

\* the mutant of RacePending: the race can be decided again after the return
RacePendingAlways(pc) == pc \in {"racing", "returned"}

\* `await Promise.race([...])` has not resumed: a promise settles once
RacePending(pc) == pc = "racing"

\* the mutant of TimerWins: there is no early response, the handler waits for allSettled
TimerWinsNever(pc, settled) == FALSE

\* the mutant of TimerWins: the timer wins the race whenever the handler still waits
TimerWinsAlways(pc, settled) == RacePending(pc)

\* the timer callback runs as a task of its own, after every reaction queued by the
\* settling of a device task has run: earlyTimeout wins the race only if allSettled
\* has not resolved
TimerWins(pc, settled) == RacePending(pc) /\ ~settled

\* the mutant of TasksRun: the device tasks stop when the handler has returned
TasksRunUntilReturn(pc) == pc = "racing"

\* the device tasks run on after the fan-out, whether or not the handler has returned:
\* nothing cancels them
TasksRun(pc) == pc \in {"racing", "returned"}

\* the mutant of FanOutDone: the handler goes on after the first task was started
FanOutDoneEarly == \E d \in scheduled : spc[d] # "start"

\* deviceEntries.map(...) has called sendToDevice for every entry
FanOutDone == \A d \in scheduled : spc[d] # "start"

\* the mutant of EarlyResult: the count is that of the tasks still in flight
EarlyResultInFlight ==
    [status |-> "delivering", success |-> TRUE,
     devices |-> Cardinality({d \in scheduled : spc[d] \notin {"done", "rejected"}})]

\* the return of the early branch (lines 904-910)
EarlyResult ==
    [status |-> "delivering", success |-> TRUE, devices |-> Len(Entries(scheduled))]

\* the return of the completed branch (lines 948-957)
\* a mutant of CompletedResult: one failed device turns the whole result into an error
CompletedResultFailsOnFailure ==
    IF \E i \in 1..Len(Results) : ~Results[i].success
    THEN [status |-> "error", error |-> "device"]
    ELSE [status |-> "delivered", success |-> TRUE, successful |-> Len(Results),
          failed |-> 0, autoCleanedCount |-> 0,
          devices |-> Len(Entries(scheduled)), deviceResults |-> Results]

\* a mutant of CompletedResult: the result succeeds only when no device failed
CompletedResultAllMustSucceed ==
    LET successful == Cardinality({i \in 1..Len(Results) : Results[i].success})
        failed == Cardinality({i \in 1..Len(Results) : ~Results[i].success})
        cleaned == Cardinality({i \in 1..Len(Results) : Results[i].autoCleanup})
    IN [status |-> "delivered", success |-> failed = 0, successful |-> successful,
        failed |-> failed, autoCleanedCount |-> cleaned,
        devices |-> Len(Entries(scheduled)), deviceResults |-> Results]

CompletedResult ==
    LET successful == Cardinality({i \in 1..Len(Results) : Results[i].success})
        failed == Cardinality({i \in 1..Len(Results) : ~Results[i].success})
        cleaned == Cardinality({i \in 1..Len(Results) : Results[i].autoCleanup})
    IN [status |-> "delivered", success |-> successful > 0, successful |-> successful,
        failed |-> failed, autoCleanedCount |-> cleaned,
        devices |-> Len(Entries(scheduled)), deviceResults |-> Results]

\* the registry read of the recipient settles with r: the handler throws, returns the
\* zero-device result, or fixes the devices to send to
\* a mutant of ReadFails: only a rejected read fails, a missing document is not tested
ReadFailsOnlyRejected(r) == r = "rejected"

\* the awaited read rejected, or `!userDoc.exists`
ReadFails(r) == r # "ok"

\* v18.1: `throw new Error('No devices found for recipient')`; v19 returns a result
EmptySetThrows(v) == v = "v18.1"

\* a mutant of NoDevices: the empty device set is not tested
NoDevicesNever(S) == FALSE

\* `deviceCount === 0`
NoDevices(S) == S = {}

HRead(r) ==
    /\ hpc = "reading"
    /\ hRead' = r
    /\ IF ReadFails(r)
       THEN /\ hpc' = "threw"
            /\ hResult' = [status |-> "error", error |-> r]
            /\ hReturns' = hReturns + 1
            /\ UNCHANGED scheduled
       ELSE IF NoDevices(DevicesMap(registry, hTarget))
       THEN /\ hpc' = IF EmptySetThrows(hVersion) THEN "threw" ELSE "returned"
            /\ hResult' = IF EmptySetThrows(hVersion)
                           THEN [status |-> "error", error |-> "no_devices"]
                           ELSE [status |-> "no_devices", success |-> TRUE]
            /\ hReturns' = hReturns + 1
            /\ UNCHANGED scheduled
       ELSE /\ hpc' = "fanning"
            /\ scheduled' = DevicesMap(registry, hTarget)
            /\ UNCHANGED <<hResult, hReturns>>
    /\ UNCHANGED <<hVersion, hTarget, timer, bgLog>>
    /\ UNCHANGED offHandler

\* deviceEntries.map(entry => sendToDevice(entry, ...)): the tasks are started one after
\* the other, in the order of the entries, before anything else runs
FanStart(d) ==
    /\ hpc = "fanning"
    /\ d \in scheduled
    /\ \A e \in scheduled : e < d => spc[e] # "start"
    /\ SendStart(d)

\* the timer is created and the handler awaits the race
HArm ==
    /\ hpc = "fanning"
    /\ FanOutDone
    /\ hpc' = "racing"
    /\ timer' = "armed"
    /\ UNCHANGED <<hVersion, hTarget, scheduled, hResult, hRead, hReturns, bgLog>>
    /\ UNCHANGED offHandler

\* a step of a device task, once the fan-out has handed control back
TaskStep ==
    /\ TasksRun(hpc)
    /\ \/ \E d \in Devices : SlotResume(d)
       \/ \E d \in Devices : RateWake(d)
       \/ \E d \in Devices, o \in SendOutcomes : CallEnd(d, o)
       \/ \E d \in Devices : BackoffDone(d)
       \/ \E d \in Devices, ok \in BOOLEAN : DeleteEnd(d, ok)
       \/ WindowSlide

\* the early-response timer fires: earlyTimeout resolves, and wins the race unless
\* allSettled has resolved already
TimerFire ==
    /\ timer = "armed"
    /\ timer' = "fired"
    /\ IF TimerWins(hpc, AllSettled)
       THEN /\ hpc' = "returned"
            /\ hResult' = EarlyResult
            /\ hReturns' = hReturns + 1
       ELSE UNCHANGED <<hpc, hResult, hReturns>>
    /\ UNCHANGED <<hVersion, hTarget, scheduled, hRead, bgLog>>
    /\ UNCHANGED offHandler

\* allSettled won the race: the completed branch
HComplete ==
    /\ RacePending(hpc)
    /\ AllSettled
    /\ hpc' = "returned"
    /\ hResult' = CompletedResult
    /\ hReturns' = hReturns + 1
    /\ UNCHANGED <<hVersion, hTarget, scheduled, timer, hRead, bgLog>>
    /\ UNCHANGED offHandler

\* `Promise.allSettled(notificationPromises).then(results => ...)` of the early branch
HBackground ==
    /\ hpc = "returned"
    /\ hResult.status = "delivering"
    /\ AllSettled
    /\ bgLog = <<>>
    /\ bgLog' = Results
    /\ UNCHANGED <<hpc, hVersion, hTarget, scheduled, timer, hResult, hRead, hReturns>>
    /\ UNCHANGED offHandler

InitHandler ==
    /\ rlKind = "window"
    /\ devOf = [d \in Devices |-> d]
    /\ hasRoute \in [Devices -> BOOLEAN]
    /\ registry \in SUBSET Devices
    /\ \A d \in Devices : hasRoute[d] => d \in registry
    /\ hTarget \in {0} \cup Devices
    /\ hVersion = "v19"
    /\ ParkedMain
    /\ hpc = "reading"
    /\ scheduled = {}
    /\ timer = "none"
    /\ hResult = NoReturn
    /\ hRead = "none"
    /\ hReturns = 0
    /\ bgLog = <<>>
    /\ spc = [d \in Devices |-> "start"]
    /\ sAttempt = [d \in Devices |-> 0]
    /\ sWake = [d \in Devices |-> 0]
    /\ sErr = [d \in Devices |-> NoResult]
    /\ sOutcome = [d \in Devices |-> NoOutcome]
    /\ requests = <<>>
    /\ deletes = {}
    /\ slots = [d \in Devices |-> 0]
    /\ grants = [d \in Devices |-> 0]
    /\ calls = [d \in Devices |-> 0]
    /\ now = 0
    /\ ParkedLimiter
    /\ ParkedBucket
    /\ ParkedWindow
    /\ ParkedLookup
    /\ ParkedRetry

NextHandler ==
    \/ \E r \in {"ok", "missing", "rejected"} : HRead(r)
    \/ \E d \in Devices : FanStart(d)
    \/ HArm
    \/ TaskStep
    \/ TimerFire
    \/ HComplete
    \/ HBackground

SpecHandler == InitHandler /\ [][NextHandler]_vars

\* every provider call and registry call ends, every timer fires and every woken
\* continuation runs: a device task that can take a step is not left behind for ever,
\* and the background logger runs once its promise has resolved
SpecHandlerFair ==
    /\ SpecHandler
    /\ WF_vars(TaskStep)
    /\ WF_vars(HBackground)

\* only the handler's own code and its timer are fair: the synchronous fan-out runs to
\* its end, the timer fires, and the continuation of the race runs; a device task may
\* stall for ever
HandlerStep == (\E d \in Devices : FanStart(d)) \/ HArm \/ TimerFire \/ HComplete

SpecHandlerTimerFair == SpecHandler /\ WF_vars(HandlerStep)

\* ------------------------------------------------------------------ fallback search
\* src/index.js (v13.1) 168-238: the search for the newest user with push targets

\* CONFIG.PAGINATION_BATCH_SIZE (25), scaled down
BatchSize == 2

\* CONFIG.MAX_PAGINATION_OFFSET (500), scaled down
MaxOffset == 4

\* the number of users of the project, at most
MaxUsers == 5

\* the creation dates a user can have
MaxDate == 2

offLookup == <<limVars, now, rlKind, tbVars, frVars, sendVars, hVars, mainVars, swVars>>

\* a user as the search sees it: $createdAt, and what users.listTargets(user.$id) gives
\* ("some": total > 0, "none": total = 0, "err": the call throws)
UserRecords == [created : 1..MaxDate, targets : {"some", "none", "err"}]

\* users.list([Query.limit(BatchSize), Query.offset(off)])
Batch(us, off) == SubSeq(us, off + 1, Min(off + BatchSize, Len(us)))

\* the `for (const user of usersBatch.users)` loop from the i-th user of the list to
\* the last one of the batch: <<foundUser, newestDate>> after it
RECURSIVE ScanFrom(_, _, _, _, _)
ScanFrom(us, i, last, found, newest) ==
    IF i > last THEN <<found, newest>>
    ELSE IF us[i].targets = "some" /\ (newest = 0 \/ us[i].created > newest)
    THEN ScanFrom(us, i + 1, last, i, us[i].created)
    ELSE ScanFrom(us, i + 1, last, found, newest)

\* one pass of the while loop: the request, the scan of the batch, the three exits
LkBatch ==
    /\ lkPc = "loop"
    /\ lkFound = 0
    /\ lkOffset < MaxOffset
    /\ lkBatches' = lkBatches + 1
    /\ LET batch == Batch(lkUsers, lkOffset)
           scan == ScanFrom(lkUsers, lkOffset + 1, lkOffset + Len(batch), lkFound, lkNewest)
       IN IF Len(batch) = 0
          THEN /\ lkPc' = "done"
               /\ UNCHANGED <<lkOffset, lkFound, lkNewest>>
          ELSE /\ lkFound' = scan[1]
               /\ lkNewest' = scan[2]
               /\ IF scan[1] # 0 \/ Len(batch) < BatchSize
                  THEN lkPc' = "done" /\ UNCHANGED lkOffset
                  ELSE lkPc' = "loop" /\ lkOffset' = lkOffset + BatchSize
    /\ UNCHANGED lkUsers
    /\ UNCHANGED offLookup

\* the loop condition fails
LkExit ==
    /\ lkPc = "loop"
    /\ ~(lkFound = 0 /\ lkOffset < MaxOffset)
    /\ lkPc' = "done"
    /\ UNCHANGED <<lkUsers, lkOffset, lkFound, lkNewest, lkBatches>>
    /\ UNCHANGED offLookup

InitLookup ==
    /\ rlKind = "window"
    /\ \E n \in 0..MaxUsers : lkUsers \in [1..n -> UserRecords]
    /\ lkOffset = 0
    /\ lkFound = 0
    /\ lkNewest = 0
    /\ lkBatches = 0
    /\ lkPc = "loop"
    /\ now = 0
    /\ ParkedLimiter
    /\ ParkedBucket
    /\ ParkedWindow
    /\ ParkedSend
    /\ ParkedRetry

NextLookup == LkBatch \/ LkExit

SpecLookup == InitLookup /\ [][NextLookup]_vars

\* ------------------------------------------------------------------ entry point
\* src/src/main.js: one request, answered with res.json

\* a mutant of MissingFields: only the recipient is required
MissingFieldsOnlyRecipient(b) == ~b.recipientId

\* `!eventData.recipientId || !eventData.chatId`
MissingFields(b) == ~b.recipientId \/ ~b.chatId

\* the status code of the response for a handler that returned or threw
ResponseCode(pc) == IF pc = "threw" THEN 500 ELSE 200

\* the request arrives: JSON.parse, the validation, and the call of handleNotification up
\* to its first await. A body that does not parse throws inside the try: the catch
\* block answers 500.
MainRequest ==
    /\ mpc = "idle"
    /\ IF ~mBody.parses
       THEN /\ mResp' = Append(mResp, 500)
            /\ mpc' = "responded"
            /\ UNCHANGED hpc
       ELSE IF MissingFields(mBody)
       THEN /\ mResp' = Append(mResp, 400)
            /\ mpc' = "responded"
            /\ UNCHANGED hpc
       ELSE /\ mpc' = "awaiting"
            /\ hpc' = "reading"
            /\ UNCHANGED mResp
    /\ UNCHANGED <<mBody, hVersion, hTarget, scheduled, timer, hResult, hRead, hReturns, bgLog>>
    /\ UNCHANGED offMain

\* the handler has settled and main's `await` has not continued yet: the continuation
\* is a microtask, it runs before any timer or I/O callback of a device task
RespondDue == mpc = "awaiting" /\ hpc \in {"returned", "threw"}

\* `await handleNotification(eventData)` settles: the result is sent, or the catch
\* block sends the error
MainRespond ==
    /\ RespondDue
    /\ mResp' = Append(mResp, ResponseCode(hpc))
    /\ mpc' = "responded"
    /\ UNCHANGED <<mBody, hVars>>
    /\ UNCHANGED offMain

InitEntry ==
    /\ rlKind = "bucket"
    /\ mBody \in [parses : BOOLEAN, recipientId : BOOLEAN, chatId : BOOLEAN]
    /\ mpc = "idle"
    /\ mResp = <<>>
    /\ hVersion = "v18.1"
    /\ hpc = "idle"
    /\ hTarget = 0
    /\ registry \in {{}, Devices}
    /\ hasRoute = [d \in Devices |-> TRUE]
    /\ devOf = [d \in Devices |-> d]
    /\ scheduled = {}
    /\ timer = "none"
    /\ hResult = NoReturn
    /\ hRead = "none"
    /\ hReturns = 0
    /\ bgLog = <<>>
    /\ spc = [d \in Devices |-> "start"]
    /\ sAttempt = [d \in Devices |-> 0]
    /\ sWake = [d \in Devices |-> 0]
    /\ sErr = [d \in Devices |-> NoResult]
    /\ sOutcome = [d \in Devices |-> NoOutcome]
    /\ requests = <<>>
    /\ deletes = {}
    /\ slots = [d \in Devices |-> 0]
    /\ grants = [d \in Devices |-> 0]
    /\ calls = [d \in Devices |-> 0]
    /\ now = 0
    /\ ParkedLimiter
    /\ ParkedBucket
    /\ ParkedWindow
    /\ ParkedLookup
    /\ ParkedRetry

NextEntry ==
    \/ MainRequest
    \/ ~RespondDue /\ NextHandler
    \/ MainRespond

SpecEntry == InitEntry /\ [][NextEntry]_vars

\* the code of the request runs when it can: the read settles, the fan-out runs, the
\* timer fires, the awaits continue; the device tasks have no fairness
EntryStep ==
    \/ MainRequest
    \/ ~RespondDue /\ ((\E r \in {"ok", "missing", "rejected"} : HRead(r)) \/ HandlerStep)
    \/ MainRespond

SpecEntryFair == SpecEntry /\ WF_vars(EntryStep)

\* ------------------------------------------------------------------ claims

InBody == {c \in Callers : lpc[c] = "inTask"}

\* C1: in every reachable state the number of tasks inside run's task body, and the
\* running counter that counts them, is at most maxConcurrent, also when tasks throw.
C1_AtMostMaxConcurrent ==
    /\ Cardinality(InBody) <= maxConcurrent
    /\ running <= maxConcurrent

\* C1 witness: the limiter is full, a caller is blocked, and a task has thrown
C1_Witness ==
    /\ running = maxConcurrent
    /\ Cardinality(InBody) = maxConcurrent
    /\ \E c \in Callers : lpc[c] = "waiting"
    /\ \E c \in Callers : lres[c] = "err"

\* C2: the slot is released exactly once on every exit path: the counter always
\* equals the number of tasks inside the body, so it is never negative and is 0
\* whenever no task body is executing.
C2_SlotReleasedOnce ==
    /\ running = Cardinality(InBody)
    /\ running >= 0
    /\ (InBody = {} => running = 0)

\* C2 witness: every caller has finished, one of them by throwing, and no slot is held
C2_Witness ==
    /\ \A c \in Callers : lpc[c] = "done"
    /\ \E c \in Callers : lres[c] = "err"
    /\ \E c \in Callers : lres[c] = "ok"
    /\ running = 0

\* C3: blocked callers are served FIFO: a caller that started waiting before another
\* caller called run has its task started before that caller's task.
C3_FifoNoOvertaking ==
    \A a \in Callers, b \in Callers :
        ( /\ a \in everWaited
          /\ IndexOf(callOrder, a) > 0
          /\ IndexOf(callOrder, a) < IndexOf(callOrder, b)
          /\ IndexOf(startOrder, b) > 0 )
        => ( /\ IndexOf(startOrder, a) > 0
             /\ IndexOf(startOrder, a) < IndexOf(startOrder, b) )

\* C4: the number of acquire() calls that have returned by time t is at most the
\* initial burst (capacity) plus the tokens refilled in the elapsed time, for any
\* number of concurrent callers (both sides scaled by TicksPerSecond).
C4_AdmissionsWithinRefill ==
    admitted * TicksPerSecond <= maxPerSecond * TicksPerSecond + maxPerSecond * now

\* the codes each utils.js fastRetry documents as permanent ("Don't retry on permanent
\* errors"); the fastRetry of notification.js documents none
PermanentCodes(v) ==
    CASE v = "utils18" -> {"404", "400"}
      [] v = "utils19" -> {"404", "400", "401", "403"}
      [] OTHER -> {}

FrCalls == Len(frOutcomes)

AllRetryable ==
    \A i \in 1..FrCalls :
        frOutcomes[i].kind = "err" /\ frOutcomes[i].code \notin PermanentCodes(frVersion)

\* C6: v19 fastRetry: an invocation that fails with code 400, 401, 403 or 404 is the
\* last one, and that same error is rethrown; a 404 on the first attempt means exactly
\* one invocation, for every maxRetries >= 0.
C6_PermanentNotRetried ==
    frVersion = "utils19" =>
        \A i \in 1..FrCalls :
            (frOutcomes[i].kind = "err" /\ frOutcomes[i].code \in {"400", "401", "403", "404"})
            => (i = FrCalls /\ frPc = "thrown" /\ frResult = frOutcomes[i])

\* C6 witness: with retries left, a 403 after one retryable failure ends fastRetry
C6_Witness ==
    /\ frVersion = "utils19"
    /\ frMaxRetries = MaxRetriesArg
    /\ FrCalls = 2
    /\ frOutcomes[1].code = "500"
    /\ frOutcomes[2].code = "403"
    /\ frPc = "thrown"

\* C7: utils.js fastRetry: a call that fails retryably k <= maxRetries times and then
\* succeeds is invoked exactly k+1 times: fastRetry does not give up before
\* maxRetries+1 invocations, returns the successful result, and invokes nothing after it.
C7_SucceedsAfterRetries ==
    frVersion \in {"utils18", "utils19"} =>
        /\ FrCalls <= frMaxRetries + 1
        /\ \A i \in 1..FrCalls :
              frOutcomes[i].kind = "ok" => (i = FrCalls /\ frPc = "returned" /\ frResult = Ok)
        /\ frPc = "returned" => (FrCalls >= 1 /\ frOutcomes[FrCalls].kind = "ok")
        /\ (frPc = "thrown" /\ AllRetryable) => FrCalls = frMaxRetries + 1

\* C7 witness: MAX_RETRIES retryable failures, then success on invocation MAX_RETRIES+1
C7_Witness ==
    /\ frVersion = "utils19"
    /\ frMaxRetries = MAX_RETRIES
    /\ FrCalls = MAX_RETRIES + 1
    /\ \A i \in 1..MAX_RETRIES : frOutcomes[i].code = "500"
    /\ frOutcomes[FrCalls].kind = "ok"
    /\ frPc = "returned"
    /\ frResult = Ok

\* C8: every retry wrapper of the send path invokes the call at most maxRetries+1
\* times, and a call that always fails retryably is invoked exactly maxRetries+1 times
\* before the last error is rethrown.
C8_ExactlyMaxRetriesPlusOne ==
    /\ FrCalls <= frMaxRetries + 1
    /\ (frPc = "thrown" /\ AllRetryable)
         => (FrCalls = frMaxRetries + 1 /\ frResult = frOutcomes[FrCalls])

\* the errors that say the Appwrite user is gone: code 404, or a message containing
\* 'could not be found'
UserDeleted(e) == e.kind = "err" /\ (e.code = "404" \/ e.notFoundMsg)

\* the provider calls started since the oldest timestamp still inside the interval was
\* pushed, for the devices whose timestamp is inside it: their first call, made when
\* the timestamp was pushed, and every retry made since (the calls of devices whose
\* timestamp has left the interval are not counted)
RECURSIVE CallsSince(_)
CallsSince(reqs) ==
    IF reqs = <<>> THEN 0 ELSE calls[Head(reqs)] + CallsSince(Tail(reqs))

\* C5: the provider calls started within any one interval, retries included, never
\* outnumber the requests the rate limiter admits per interval.
C5_CallsWithinRate == CallsSince(requests) <= maxRequests

\* C9: the fastRetry of notification.js, called as sendToDevice calls it (default
\* maxRetries): an invocation that fails because the user was deleted is the last one.
C9_DeletedUserNotRetried ==
    (frVersion = "local" /\ frMaxRetries = LOCAL_MAX_RETRIES) =>
        \A i \in 1..FrCalls : UserDeleted(frOutcomes[i]) => i = FrCalls

\* C10: a device record without appwriteUserId gets the missing-route outcome, and
\* its task makes no provider call, takes no concurrency slot, gets no rate-limiter
\* admission and issues no registry delete.
C10_MissingRouteNoEffect ==
    \A d \in Devices :
        ~hasRoute[d] =>
            /\ calls[d] = 0
            /\ slots[d] = 0
            /\ grants[d] = 0
            /\ \A i \in 1..Len(requests) : requests[i] # d
            /\ <<RecipientId, d>> \notin deletes
            /\ d \in registry
            /\ spc[d] \in {"start", "done"}
            /\ spc[d] = "done" =>
                  sOutcome[d] = Outcome(d, FALSE, "No Appwrite User ID", FALSE)

\* C10 witness: a device without route has its outcome while a sibling is mid-call
C10_Witness ==
    \E d \in Devices, e \in Devices :
        /\ ~hasRoute[d]
        /\ spc[d] = "done"
        /\ sOutcome[d].error = "No Appwrite User ID"
        /\ hasRoute[e]
        /\ spc[e] = "calling"
        /\ running = maxConcurrent

\* the device-gone errors as the claims list them
GoneError(e) ==
    /\ e.kind = "err"
    /\ \/ e.code \in {"404", "messaging/registration-token-not-registered",
                      "messaging/invalid-registration-token"}
       \/ e.notFoundMsg

Settled(d) == spc[d] \in {"done", "rejected"}

\* C11: whenever sendToDevice ends on a device-gone failure, its outcome has
\* autoCleanup = true, whether the registry delete succeeded or failed.
C11_CleanupFlagAlways ==
    \A d \in Devices :
        (spc[d] = "done" /\ GoneError(sErr[d])) => sOutcome[d].autoCleanup

\* C12: an outcome with autoCleanup = true has success = false, and a delete for that
\* device was issued by the task before it produced the outcome.
C12_CleanupFlagMeansDelete ==
    \A d \in Devices :
        sOutcome[d].autoCleanup =>
            /\ spc[d] = "done"
            /\ ~sOutcome[d].success
            /\ <<RecipientId, d>> \in deletes

\* C12 witness: a flagged outcome next to a sibling that failed without cleanup
C12_Witness ==
    \E d \in Devices, e \in Devices :
        /\ spc[d] = "done"
        /\ sOutcome[d].autoCleanup
        /\ spc[e] = "done"
        /\ sErr[e].code = "403"
        /\ ~sOutcome[e].autoCleanup

C14_NeverRejects ==
    /\ [](\A d \in Devices :
            /\ spc[d] # "rejected"
            /\ spc[d] = "done" =>
                  (sOutcome[d].deviceId = d /\ sOutcome[d].success \in BOOLEAN)
            /\ spc[d] # "done" => sOutcome[d] = NoOutcome)
    /\ [][\A d \in Devices, e \in Devices :
            (d # e /\ spc[d] # "done" /\ spc'[d] = "done")
                => /\ sOutcome'[e] = sOutcome[e]
                   /\ \/ spc'[e] = spc[e]
                      \/ spc[e] = "waiting" /\ spc'[e] = "woken"]_vars

\* C14 witness: the cleanup delete of one device failed, a permanent error ended
\* another, and both have their outcome
C14_Witness ==
    \E d \in Devices, e \in Devices :
        /\ spc[d] = "done"
        /\ <<RecipientId, d>> \in deletes
        /\ d \in registry
        /\ sOutcome[d] = FailedOutcome(d)
        /\ spc[e] = "done"
        /\ sErr[e].code = "403"
        /\ sOutcome[e] = FailedOutcome(e)

Returned == hpc \in {"returned", "threw"}

\* C15: a completed result has exactly one outcome per scheduled device: as many
\* entries as scheduled devices, every scheduled deviceId once, none twice, and the
\* scheduled devices are those a task was started for.
C15_OneOutcomePerDevice ==
    hResult.status = "delivered" =>
        /\ Len(hResult.deviceResults) = Cardinality(scheduled)
        /\ hResult.devices = Cardinality(scheduled)
        /\ \A i \in 1..Len(hResult.deviceResults) :
              hResult.deviceResults[i].deviceId \in scheduled
        /\ \A d \in scheduled :
              Cardinality({i \in 1..Len(hResult.deviceResults) :
                              hResult.deviceResults[i].deviceId = d}) = 1
        /\ \A i \in 1..Len(hResult.deviceResults) :
              hResult.deviceResults[i] = sOutcome[Entries(scheduled)[i]]
        /\ \A d \in Devices : d \in scheduled <=> spc[d] # "start"

\* C15 witness: a completed result for every device, with a success and a failure
C15_Witness ==
    /\ hResult.status = "delivered"
    /\ scheduled = Devices
    /\ hResult.successful >= 1
    /\ hResult.failed >= 1

\* C16: an invocation returns exactly once, with the early or the completed result;
\* the event that lost the race neither changes the result nor returns again.
C16_ReturnsOnce ==
    /\ [](/\ hReturns <= 1
          /\ Returned <=> hReturns = 1
          /\ Returned <=> hResult # NoReturn
          /\ (hpc = "returned" /\ scheduled # {}) => hResult.status \in {"delivering", "delivered"})
    /\ [][Returned => (hpc' = hpc /\ hResult' = hResult /\ hReturns' = hReturns)]_vars

\* C16 witness: the early result was returned, and afterwards every task settled and
\* the background logger ran
C16_Witness ==
    /\ hResult.status = "delivering"
    /\ hReturns = 1
    /\ AllSettled
    /\ bgLog # <<>>

\* C17: when every scheduled task has settled before the timer fires, the handler
\* returns the completed result: whatever the handler returns from there is the
\* completed result, and the 'delivering' result is returned only while a task is
\* unsettled.
C17_SettledFirstCompletes ==
    /\ [][(hpc = "racing" /\ AllSettled /\ timer = "armed")
            => (hResult' = NoReturn \/ hResult' = CompletedResult)]_vars
    /\ [][(hResult = NoReturn /\ hResult'.status = "delivering") => ~AllSettled]_vars

\* C17 witness: the completed result was returned, and the timer fired afterwards
C17_Witness ==
    /\ hResult.status = "delivered"
    /\ timer = "fired"
    /\ Cardinality(scheduled) > 1
    /\ \E d \in scheduled : calls[d] > 1

\* C18: when the timer fires while a scheduled task is unsettled, the handler returns
\* the 'delivering' result, whose count is the number of devices scheduled and which
\* has no per-device outcomes.
C18_TimerFirstDelivers ==
    /\ [](hResult.status = "delivering" =>
            /\ hResult.devices = Cardinality(scheduled)
            /\ hResult.success
            /\ DOMAIN hResult = {"status", "success", "devices"})
    /\ [][(timer = "armed" /\ timer' = "fired" /\ hpc = "racing" /\ ~AllSettled)
            => (hpc' = "returned" /\ hResult'.status = "delivering")]_vars

\* C18 witness: the early result with its full count, while one task has settled and
\* another has not
C18_Witness ==
    /\ hResult.status = "delivering"
    /\ hResult.devices = NumDevices
    /\ \E d \in scheduled : spc[d] = "done"
    /\ \E d \in scheduled : spc[d] \notin {"done", "start"}

\* C19: after an early return the tasks in flight are not cancelled: every scheduled
\* device gets its outcome, the background logger sees those outcomes, and the result
\* already returned to the caller stays as it was.
C19_BackgroundCompletes ==
    /\ (hResult.status = "delivering")
          ~> (AllSettled /\ bgLog = Results /\ hResult = EarlyResult)
    /\ [][hResult.status = "delivering" => hResult' = hResult]_vars

\* C19 witness: after the early return every task settled, one of them with a
\* success, and the logger has the outcomes of all devices
C19_Witness ==
    /\ hResult.status = "delivering"
    /\ AllSettled
    /\ Len(bgLog) = NumDevices
    /\ \E d \in scheduled : bgLog[d].success
    /\ timer = "fired"

\* C20: returning early neither loses nor duplicates work: each scheduled device has
\* exactly one task, started in the fan-out and never again, and once a task has its
\* outcome (a success included) no provider call is made for its device.
C20_NoLostNoDuplicateWork ==
    /\ [](\A d \in Devices :
            /\ hpc \in {"racing", "returned"} => (d \in scheduled <=> spc[d] # "start")
            /\ d \notin scheduled => (spc[d] = "start" /\ calls[d] = 0)
            /\ slots[d] <= 1
            /\ sOutcome[d].success => calls[d] >= 1)
    /\ [][\A d \in Devices :
            /\ spc[d] # "start" => (spc'[d] # "start" /\ slots'[d] >= slots[d])
            /\ (spc[d] # "start" /\ slots[d] = 1) => slots'[d] = 1
            /\ spc[d] = "done" => (calls'[d] = calls[d] /\ sOutcome'[d] = sOutcome[d])
            /\ hpc = "returned" => (spc[d] = "start" => spc'[d] = "start")]_vars

\* C20 witness: after the early return a device got its notification on a retry
C20_Witness ==
    /\ hResult.status = "delivering"
    /\ scheduled = Devices
    /\ AllSettled
    /\ \E d \in scheduled : sOutcome[d].success /\ calls[d] = MAX_RETRIES + 1

Stalled(d) == spc[d] \in {"waiting", "woken", "rlSleep", "calling", "backoff", "deleting"}

\* C21: once the fan-out has started the handler returns whatever the device tasks
\* do, and a timer that fires while a task is stalled on a slot, on the rate limiter,
\* in a backoff or in a call returns the 'delivering' result in that very step.
C21_StalledTaskNoDelay ==
    /\ (hpc = "fanning") ~> (hpc = "returned")
    /\ [][(timer = "armed" /\ timer' = "fired" /\ hpc = "racing"
             /\ \E d \in scheduled : Stalled(d))
            => (hResult' = EarlyResult /\ hReturns' = 1)]_vars

\* C21 witness: the early result was returned while one task waits for a slot and
\* another is inside its provider call
C21_Witness ==
    /\ hResult.status = "delivering"
    /\ \E d \in scheduled : spc[d] = "waiting"
    /\ \E d \in scheduled : spc[d] = "calling"

NoDispatch ==
    /\ scheduled = {}
    /\ timer = "none"
    /\ \A d \in Devices : spc[d] = "start" /\ slots[d] = 0 /\ grants[d] = 0 /\ calls[d] = 0
    /\ requests = <<>>
    /\ deletes = {}
    /\ bgLog = <<>>

\* the target device id is set and is not a key of the recipient's device map
TargetAbsent == hTarget # 0 /\ hTarget \notin registry /\ <<RecipientId, hTarget>> \notin deletes

\* C22: with a target device id that is not in the recipient's device set, no device
\* task is scheduled and no provider call is made.
C22_AbsentTargetNoDevices == (TargetAbsent /\ hpc # "reading") => NoDispatch

\* C23: for a recipient with an empty device set the handler returns the zero-device
\* result without an error, and schedules no task, arms no timer and calls nothing.
C23_EmptySetReturnsNoDevices ==
    /\ (hRead = "ok" /\ registry = {} /\ deletes = {})
         => (hpc = "returned" /\ hResult = [status |-> "no_devices", success |-> TRUE])
    /\ hResult.status = "no_devices" => (hpc = "returned" /\ hReturns = 1 /\ NoDispatch)

\* C23 witness: the handler returned the zero-device result for an empty device set
C23_Witness == hRead = "ok" /\ registry = {} /\ hResult.status = "no_devices" /\ hTarget = 0

\* C24: when the registry read rejects or the recipient document does not exist the
\* handler throws, and no device task, provider call or registry delete happens.
C24_FailedReadNoDispatch ==
    /\ [](hRead \in {"missing", "rejected"}
            => (hpc = "threw" /\ hResult = [status |-> "error", error |-> hRead]
                  /\ hReturns = 1 /\ NoDispatch))
    /\ [](hpc = "threw" => hRead \in {"missing", "rejected"})
    /\ [][hpc = "threw" => UNCHANGED vars]_vars

\* C24 witness: the handler threw on a missing recipient document although the
\* registry holds devices with a route
C24_Witness ==
    /\ hpc = "threw"
    /\ hRead = "missing"
    /\ \E d \in registry : hasRoute[d]

C27_WitnessBucket ==
    /\ rlKind = "bucket"
    /\ admitted = MaxAcquires
    /\ \A c \in Acquirers : bpc[c] = "idle"
    /\ admitted * TicksPerSecond > maxPerSecond * TicksPerSecond + now * maxPerSecond

C28_WitnessThrew == hpc = "threw" /\ hRead = "missing" /\ mResp = <<500>>

\* the task of device d holds a slot: it is inside the body handed to run
HoldsSlot(d) == spc[d] \in {"rlSleep", "calling", "backoff"}

\* C29: a task takes one slot, then one admission of the rate limiter, then makes its
\* provider calls; it holds the slot from there through the rate-limit wait, every
\* call and every backoff, and gives it back only when the retry wrapper has returned
\* or thrown.
C29_SlotThenRateThenCall ==
    /\ [](/\ running = Cardinality({d \in Devices : HoldsSlot(d)})
          /\ \A d \in Devices :
                /\ slots[d] <= 1
                /\ grants[d] <= slots[d]
                /\ calls[d] > 0 => grants[d] = 1
                /\ HoldsSlot(d) => slots[d] = 1
                /\ spc[d] \in {"rlSleep"} => (grants[d] = 0 /\ calls[d] = 0)
                /\ spc[d] \in {"start", "waiting", "woken"} => (slots[d] = 0 /\ calls[d] = 0))
    /\ [][\A d \in Devices :
             /\ calls'[d] # calls[d] => (HoldsSlot(d)' /\ spc'[d] = "calling" /\ grants'[d] = 1)
             /\ grants'[d] # grants[d] => (slots'[d] = 1 /\ calls[d] = 0)
             /\ (HoldsSlot(d) /\ ~HoldsSlot(d)')
                   => (spc[d] = "calling" /\ spc'[d] \in {"done", "deleting"}
                         /\ sAttempt'[d] = sAttempt[d])]_vars

\* C29 witness: a task that waited in the rate limiter and then went through a backoff
\* has finished and given its slot back
C29_Witness ==
    /\ \E d \in Devices :
          /\ spc[d] = "done"
          /\ sWake[d] # 0
          /\ sAttempt[d] >= 1
          /\ calls[d] >= 2
    /\ running = 0

\* fastRetry treats the provider's device-gone codes as permanent
RegistrationCodes ==
    {"messaging/registration-token-not-registered", "messaging/invalid-registration-token"}

\* C30: in fastRetry of src/src/utils.js an error with one of the provider's
\* registration-token codes ends the invocation: fn is not called again after it.
C30_RegistrationErrorsPermanent ==
    frVersion \in {"utils18", "utils19"} =>
        \A i \in 1..Len(frOutcomes) :
            (frOutcomes[i].kind = "err" /\ frOutcomes[i].code \in RegistrationCodes)
                => i = Len(frOutcomes)

UtilsRetry == frVersion \in {"utils18", "utils19"}

\* C31: in fastRetry of src/src/utils.js the wait after the failure of attempt a is
\* INITIAL_RETRY_DELAY * 2^a (50, 100, 200, ... ms), the next invocation comes only
\* after that wait, and a success, a permanent error or the last attempt is followed
\* by no wait.
C31_ExponentialBackoff ==
    /\ [](UtilsRetry =>
            /\ \A i \in 1..Len(frDelays) : frDelays[i] = 50 * Pow2(i - 1)
            /\ frPc = "loop" => Len(frDelays) = FrCalls
            /\ frPc = "backoff" => Len(frDelays) = FrCalls
            /\ frPc \in {"returned", "thrown"} /\ FrCalls > 0 => Len(frDelays) = FrCalls - 1)
    /\ [][(UtilsRetry /\ frDelays' # frDelays) =>
            /\ frDelays' = Append(frDelays, INITIAL_RETRY_DELAY * Pow2(frAttempt))
            /\ frOutcomes'[FrCalls + 1].kind = "err"
            /\ frOutcomes'[FrCalls + 1].code \notin PermanentCodes(frVersion)
            /\ frAttempt < frMaxRetries
            /\ frPc' = "backoff"]_vars
    /\ [][(UtilsRetry /\ frOutcomes' # frOutcomes /\ FrCalls > 0) =>
            (frAttempt = FrCalls /\ Len(frDelays) = FrCalls)]_vars

\* C31 witness: three retryable failures were followed by waits of 50, 100 and 200 ms
\* and the fourth attempt ended the invocation
C31_Witness ==
    /\ frVersion = "utils19"
    /\ frDelays = <<50, 100, 200>>
    /\ FrCalls = 4
    /\ frPc \in {"returned", "thrown"}

\* caller c's task ends in this step
Completes(c) == lpc[c] = "inTask" /\ lpc'[c] = "done"

\* C32: a task completion, successful or not, takes the head of a non-empty queue out
\* and wakes it and nobody else, wakes nobody when the queue is empty, and a waiter is
\* woken by nothing but a completion.
C32_CompletionWakesHead ==
    /\ [](/\ \A i, j \in 1..Len(queue) : queue[i] = queue[j] => i = j
          /\ \A c \in Callers : lpc[c] = "waiting" <=> \E i \in 1..Len(queue) : queue[i] = c)
    /\ [][\A c \in Callers : Completes(c) =>
            IF queue # <<>>
            THEN /\ queue' = Tail(queue)
                 /\ lpc'[Head(queue)] = "woken"
                 /\ \A x \in Callers \ {c, Head(queue)} : lpc'[x] = lpc[x]
            ELSE /\ queue' = queue
                 /\ \A x \in Callers \ {c} : lpc'[x] = lpc[x]]_vars
    /\ [][\A x \in Callers :
            (lpc[x] # "woken" /\ lpc'[x] = "woken")
                => (lpc[x] = "waiting" /\ \E c \in Callers : Completes(c))]_vars

\* C32 witness: a failed task woke the first of two waiters and left the second queued
C32_Witness ==
    \E c, x, y \in Callers :
        /\ lpc[c] = "done" /\ lres[c] = "err"
        /\ lpc[x] = "woken"
        /\ queue = <<y>>
        /\ IndexOf(callOrder, x) < IndexOf(callOrder, y)

\* C33: of the acquire() calls the sliding-list limiter has granted, at most
\* maxRequests fall into any window of length interval: every grant has fewer than
\* maxRequests grants less than one interval before it.
C33_GrantsWithinWindow ==
    /\ \A j \in 1..Len(grantLog) :
          Cardinality({i \in 1..j : grantLog[j] - grantLog[i] < Interval}) <= maxRequests
    /\ \A i, j \in 1..Len(grantLog) : i <= j => grantLog[i] <= grantLog[j]
    /\ Len(stamps) <= maxRequests

\* C33 witness: after two grants one interval apart, two callers sleep until the same
\* timestamp leaves the list, so that one of them will find its place taken when it
\* tests again
C33_Witness ==
    /\ Len(grantLog) >= 2
    /\ grantLog[Len(grantLog)] - grantLog[Len(grantLog) - 1] = Interval
    /\ \E c, d \in Acquirers :
          /\ c # d
          /\ wpc[c] = "sleeping" /\ wpc[d] = "sleeping"
          /\ wWake[c] = wWake[d]

\* C34: with a single caller that calls acquire() one call after the other, the
\* time slept is not credited again at the next refill, so the calls that have
\* returned by time t are at most the capacity plus the tokens refilled in the elapsed
\* time (both sides scaled by TicksPerSecond).
C34_SequentialAdmissions ==
    (\A c \in Acquirers \ {SeqCaller} : bpc[c] = "idle" /\ wakeAt[c] = 0)
        => admitted * TicksPerSecond <= (maxPerSecond * TicksPerSecond) + (now * maxPerSecond)

\* C35: handleNotification removes a device from the registry only when that device's
\* own send ended on a device-gone error; a device that got its notification, has no
\* route, was not scheduled or failed for another reason has no delete issued and
\* stays as it was, and nothing is ever added.
C35_OnlyGoneDevicesDeleted ==
    /\ [](\A d \in Devices :
            (\/ d \notin scheduled
             \/ ~hasRoute[d]
             \/ sOutcome[d].success
             \/ (spc[d] = "done" /\ ~GoneError(sErr[d])))
                => <<RecipientId, d>> \notin deletes)
    /\ [][registry' # registry =>
            \E d \in scheduled :
                /\ registry' = registry \ {d}
                /\ d \in registry
                /\ hasRoute[d]
                /\ spc[d] = "deleting"
                /\ GoneError(sErr[d])
                /\ <<RecipientId, d>> \in deletes]_vars
    /\ [][\A d \in Devices :
            (<<RecipientId, d>> \in deletes' /\ <<RecipientId, d>> \notin deletes)
                => (d \in scheduled /\ spc[d] = "calling" /\ spc'[d] = "deleting"
                      /\ GoneError(sErr'[d]))]_vars

\* C35 witness: the handler has returned; one device failed with 403 and is still
\* registered with no delete issued, another was device-gone and is removed
C35_Witness ==
    /\ hpc = "returned"
    /\ \E d, e \in scheduled :
          /\ spc[d] = "done" /\ sErr[d].code = "403"
          /\ d \in registry /\ <<RecipientId, d>> \notin deletes
          /\ spc[e] = "done" /\ GoneError(sErr[e])
          /\ e \notin registry /\ deletes = {<<RecipientId, e>>}

\* C36: a completed result has success = true exactly when at least one device
\* outcome has success = true, and is returned, not thrown, when every device failed;
\* an early 'delivering' result has success = true whatever the outcomes turn out to be.
C36_OverallSuccessFlag ==
    /\ hResult.status = "delivered" =>
          /\ hpc = "returned"
          /\ hResult.success <=> \E d \in scheduled : sOutcome[d].success
          /\ hResult.success <=>
                \E i \in 1..Len(hResult.deviceResults) : hResult.deviceResults[i].success
    /\ hResult.status = "delivering" => (hpc = "returned" /\ hResult.success)

\* C36 witness: the early result says success although every device has failed since
C36_Witness ==
    /\ hResult.status = "delivering"
    /\ hResult.success
    /\ scheduled = Devices
    /\ AllSettled
    /\ \A d \in scheduled : ~sOutcome[d].success

\* a completed result with one device delivered and one failed says success
C36_WitnessMixed ==
    /\ hResult.status = "delivered"
    /\ hResult.success
    /\ hResult.failed >= 1

\* C37: the limiter loses no wake-up: whenever a caller is queued while the counter
\* is below maxConcurrent, a wake-up is pending; and with terminating tasks every
\* caller that had to wait starts its task, also after it was overtaken and queued
\* again.
C37_NoLostWakeup ==
    /\ []((queue # <<>> /\ running < maxConcurrent)
            => \E x \in Callers : lpc[x] = "woken")
    /\ \A c \in Callers : (lpc[c] \in {"waiting", "woken"}) ~> (lpc[c] = "inTask")

\* C37 witness: every caller has run its task, one of them after it was woken, found
\* the slot taken by a later caller and was queued again
C37_Witness ==
    /\ \A c \in Callers : lpc[c] = "done"
    /\ Len(startOrder) = NumCallers
    /\ \E x, y \in Callers :
          /\ x \in everWaited
          /\ y \notin everWaited
          /\ IndexOf(callOrder, x) < IndexOf(callOrder, y)
          /\ IndexOf(startOrder, y) < IndexOf(startOrder, x)

\* C38: in the token bucket 0 <= tokens <= maxPerSecond in every state (tokens are
\* scaled by TicksPerSecond) and lastRefill never decreases, for any interleaving of
\* concurrent acquire() calls with the clock.
C38_BucketInvariants ==
    /\ [](/\ 0 <= tokens
          /\ tokens <= maxPerSecond * TicksPerSecond
          /\ 0 <= lastRefill
          /\ lastRefill <= now)
    /\ [][lastRefill' >= lastRefill /\ now' >= now]_vars

\* C38 witness: concurrent callers took the tokens, slept and woke, and the bucket is
\* empty after the last of them returned
C38_Witness ==
    /\ lastRefill > 0
    /\ tokens = 0
    /\ admitted = MaxAcquires
    /\ \A c \in Acquirers : bpc[c] = "idle"

\* the refill of a full bucket after an idle time is cut at the capacity
C38_WitnessCap ==
    /\ admitted = 1
    /\ lastRefill > 0
    /\ tokens = (maxPerSecond * TicksPerSecond) - TicksPerSecond

\* the users the search can reach with its batch requests
Reach == CeilDiv(MaxOffset, BatchSize) * BatchSize

Listed == 1..Min(Len(lkUsers), Reach)

\* C39: the fallback search issues at most MAX_PAGINATION_OFFSET / PAGINATION_BATCH_SIZE
\* batch requests, and the user it selects is the most recently created one among all
\* listed users that have a push target.
C39_FallbackSelectsNewest ==
    /\ lkBatches <= CeilDiv(MaxOffset, BatchSize)
    /\ lkPc = "done" =>
          /\ (\E u \in Listed : lkUsers[u].targets = "some") => lkFound # 0
          /\ lkFound # 0 =>
                /\ lkUsers[lkFound].targets = "some"
                /\ \A u \in Listed :
                      lkUsers[u].targets = "some"
                          => lkUsers[u].created <= lkUsers[lkFound].created

====
